---------------------------- MODULE Spec2Model ----------------------------
(***************************************************************************)
(* A model of the OCR balance-sheet parser xbrl_image_parser.py, of        *)
(* scrape_elements of xbrl_parser.py, and of the line band detector.       *)
(*                                                                         *)
(* The parser is a library of functions over a pandas table of OCR word    *)
(* records.  Each function is modelled by a specification of its own: Init *)
(* draws the function's input from a bounded set, and the actions are the  *)
(* steps of the function (one action per branch or loop iteration).  The   *)
(* variables of the functions a specification does not exercise stay at    *)
(* their idle values.                                                      *)
(*                                                                         *)
(* Text is a sequence of one-character strings, so that str.replace,       *)
(* str.strip, re.match and the like are computed character by character.   *)
(* The undefined float of pandas (numpy.nan) is the value NaN.             *)
(***************************************************************************)
EXTENDS Integers, Sequences, FiniteSets, TLC

VARIABLES
    yr_numerical,   \* determine_years_count: the 'numerical' column of subset, as value -> number of rows
    yr_candidates,  \* determine_years_count: the local 'candidates'
    yr_result,      \* determine_years_count: how the call ended
    un_text,        \* determine_units_count: the 'text' column of subset, as token -> number of rows
    un_units,       \* determine_units_count: the local table 'units'
    un_result,      \* determine_units_count: how the call ended
    nm_series,      \* convert_to_numeric: the element of 'series' being converted
    nm_result,      \* convert_to_numeric: the element of 'numeric_series' it becomes
    gm_data,        \* make_measurements: the table 'data', a sequence of rows
    gm_result,      \* make_measurements: how the call ended, with 'line_data'
    ag_line_text,   \* aggregate_sentences_over_lines: the table 'line_text', one row per line
    ag_index,       \* aggregate_sentences_over_lines: the row the loop visits next, counted from 1
    ag_row_of_interest, \* aggregate_sentences_over_lines: the accumulator 'row_of_interest'
    ag_results,     \* aggregate_sentences_over_lines: the table 'results' the loop appends to
    ag_result,      \* aggregate_sentences_over_lines: how the call ended, with the table returned
    al_dat,         \* extract_stat_linesearch: the table 'dat', a sequence of word records
    al_keyphrase,   \* extract_stat_linesearch: the argument 'keyphrase'
    al_row,         \* extract_stat_linesearch: the position in dat of the matched 'row', 0 before the match
    al_selection,   \* extract_stat_linesearch: the positions in dat of the rows of 'selection', in its order
    al_result,      \* extract_stat_linesearch: how the call ended, with the tuples returned
    fs_dat,         \* find_statistics: the table 'dat', a sequence of word records
    fs_keystring,   \* find_statistics: the argument 'keystring'
    fs_pc,          \* find_statistics: the block of the function that runs next
    fs_stats,       \* find_statistics: how the call of extract_stat ended
    fs_complex,     \* find_statistics: how the call of extract_stat_complex ended
    fs_result,      \* find_statistics: how the call ended, with the value returned
    sc_soup,        \* scrape_elements: what the searches of 'soup' find, and how parsing them goes
    sc_pc,          \* scrape_elements: the try block that runs next, 1 to 5
    sc_tried,       \* scrape_elements: how each try block that has run ended, in order
    sc_result,      \* scrape_elements: how the call ended, with the number of elements returned
    bd_words,       \* LineBandDetector: the Words of the page, a sequence of records
    bd_i,           \* LineBandDetector: the pixel row the scan visits next
    bd_run,         \* LineBandDetector: the occupied rows of the run being built
    bd_bands,       \* LineBandDetector: the Bands yielded so far, in order
    bd_result       \* LineBandDetector: how the scan ended

yrVars == <<yr_numerical, yr_candidates, yr_result>>
unVars == <<un_text, un_units, un_result>>
nmVars == <<nm_series, nm_result>>
gmVars == <<gm_data, gm_result>>
agVars == <<ag_line_text, ag_index, ag_row_of_interest, ag_results, ag_result>>
alVars == <<al_dat, al_keyphrase, al_row, al_selection, al_result>>
fsVars == <<fs_dat, fs_keystring, fs_pc, fs_stats, fs_complex, fs_result>>
scVars == <<sc_soup, sc_pc, sc_tried, sc_result>>
bdVars == <<bd_words, bd_i, bd_run, bd_bands, bd_result>>
vars == <<yrVars, unVars, nmVars, gmVars, agVars, alVars, fsVars, scVars, bdVars>>

\* A cell of a numeric column: a number, or numpy.nan.
NaN == [nan |-> TRUE]
Number(n) == [val |-> n]
Pending == [kind |-> "pending"]

(***************************************************************************)
(* The variables of a function that is not called: no input, no result.    *)
(***************************************************************************)

otherThanYr == <<unVars, nmVars, gmVars, agVars, alVars, fsVars, scVars, bdVars>>
otherThanUn == <<yrVars, nmVars, gmVars, agVars, alVars, fsVars, scVars, bdVars>>
otherThanNm == <<yrVars, unVars, gmVars, agVars, alVars, fsVars, scVars, bdVars>>
otherThanGm == <<yrVars, unVars, nmVars, agVars, alVars, fsVars, scVars, bdVars>>
otherThanAg == <<yrVars, unVars, nmVars, gmVars, alVars, fsVars, scVars, bdVars>>
otherThanAl == <<yrVars, unVars, nmVars, gmVars, agVars, fsVars, scVars, bdVars>>
otherThanFs == <<yrVars, unVars, nmVars, gmVars, agVars, alVars, scVars, bdVars>>
otherThanSc == <<yrVars, unVars, nmVars, gmVars, agVars, alVars, fsVars, bdVars>>
otherThanBd == <<yrVars, unVars, nmVars, gmVars, agVars, alVars, fsVars, scVars>>

yrIdle ==
    /\ yr_numerical = <<>>
    /\ yr_candidates = <<>>
    /\ yr_result = Pending

unIdle ==
    /\ un_text = <<>>
    /\ un_units = <<>>
    /\ un_result = Pending

nmIdle ==
    /\ nm_series = <<>>
    /\ nm_result = Pending

gmIdle ==
    /\ gm_data = <<>>
    /\ gm_result = Pending

agIdle ==
    /\ ag_line_text = <<>>
    /\ ag_index = 0
    /\ ag_row_of_interest = <<>>
    /\ ag_results = <<>>
    /\ ag_result = Pending

alIdle ==
    /\ al_dat = <<>>
    /\ al_keyphrase = <<>>
    /\ al_row = 0
    /\ al_selection = <<>>
    /\ al_result = Pending

fsIdle ==
    /\ fs_dat = <<>>
    /\ fs_keystring = <<>>
    /\ fs_pc = "idle"
    /\ fs_stats = Pending
    /\ fs_complex = Pending
    /\ fs_result = Pending

scIdle ==
    /\ sc_soup = <<>>
    /\ sc_pc = 0
    /\ sc_tried = <<>>
    /\ sc_result = Pending

bdIdle ==
    /\ bd_words = <<>>
    /\ bd_i = 0
    /\ bd_run = {}
    /\ bd_bands = <<>>
    /\ bd_result = Pending

(***************************************************************************)
(* Helpers shared by the functions.                                        *)
(***************************************************************************)

\* The elements of S whose key is the largest.
MaxByKey(S, key) == {a \in S : \A b \in S : key[b] <= key[a]}

\* DataFrame.sort_values(..., ascending=False) over the rows S: every order
\* of S with non-increasing keys.  pandas sorts with numpy's quicksort, which
\* is not stable, so rows with equal keys may come out in any order.  key is
\* the sort column, as a function of the row.
RECURSIVE SortDescending(_, _)
SortDescending(S, key) ==
    IF S = {} THEN {<<>>}
    ELSE UNION {{<<a>> \o t : t \in SortDescending(S \ {a}, key)} : a \in MaxByKey(S, key)}

\* seq[0:n], the positional slice of the first n entries.
FirstRows(seq, n) == SubSeq(seq, 1, IF Len(seq) < n THEN Len(seq) ELSE n)

(***************************************************************************)
(* determine_years_count(subset, limits=[2000, 2050])                      *)
(***************************************************************************)

LimitLo == 2000
LimitHi == 2050

\* The values the 'numerical' column is drawn from: both sides of each limit
\* and three consecutive years in between.
YearValues == {1999, 2000, 2017, 2018, 2019, 2050, 2051}
MaxYearCount == 3

\* subset['keyword_found']: the value lies within the limits.
YearKeywordFound(v) == v >= LimitLo /\ v <= LimitHi

\* subset[subset['keyword_found']==True].groupby("numerical"): the distinct
\* values that have at least one row within the limits.
YearGroups(numerical) ==
    {v \in DOMAIN numerical : numerical[v] > 0 /\ YearKeywordFound(v)}

\* .count().reset_index().sort_values("count", ascending=False)
\* ['numerical'][0:2].values: the outcomes the sort may produce.
YearCandidates(numerical) ==
    {FirstRows(s, 2) : s \in SortDescending(YearGroups(numerical), numerical)}

\* A slip of the comparison: any positive gap is accepted.
YearsAcceptedAnyGap(c) == c[1] - c[2] >= 1

\* if (candidates[0] - candidates[1]) == 1
YearsAccepted(c) == c[1] - c[2] = 1

YearsInit ==
    /\ yr_numerical \in [YearValues -> 0..MaxYearCount]
    /\ yr_candidates = <<>>
    /\ yr_result = Pending

\* candidates[0] or candidates[1] does not exist: numpy raises IndexError.
YearsIndexError ==
    /\ yr_result = Pending
    /\ \E c \in YearCandidates(yr_numerical) :
        /\ Len(c) < 2
        /\ yr_candidates' = c
        /\ yr_result' = [kind |-> "IndexError"]
    /\ UNCHANGED yr_numerical
    /\ UNCHANGED otherThanYr

\* return(candidates)
YearsReturnCandidates ==
    /\ yr_result = Pending
    /\ \E c \in YearCandidates(yr_numerical) :
        /\ Len(c) = 2
        /\ YearsAccepted(c)
        /\ yr_candidates' = c
        /\ yr_result' = [kind |-> "return_candidates", value |-> c]
    /\ UNCHANGED yr_numerical
    /\ UNCHANGED otherThanYr

\* return(0)
YearsReturnZero ==
    /\ yr_result = Pending
    /\ \E c \in YearCandidates(yr_numerical) :
        /\ Len(c) = 2
        /\ ~YearsAccepted(c)
        /\ yr_candidates' = c
        /\ yr_result' = [kind |-> "return_0", value |-> 0]
    /\ UNCHANGED yr_numerical
    /\ UNCHANGED otherThanYr

determine_years_count ==
    \/ YearsIndexError
    \/ YearsReturnCandidates
    \/ YearsReturnZero

YearsNext == determine_years_count

InitYears == YearsInit /\ unIdle /\ nmIdle /\ gmIdle /\ agIdle /\ alIdle /\ fsIdle /\ scIdle /\ bdIdle

SpecYears == InitYears /\ [][YearsNext]_vars

Abs(n) == IF n < 0 THEN -n ELSE n

YearsDone == yr_result.kind # "pending"
YearsReturnedPair == yr_result.kind = "return_candidates"

\* The two most frequent years are the same however ties are broken: the
\* first candidate outnumbers the second, and the second every other year.
YearsTopTwoClear ==
    /\ yr_numerical[yr_candidates[1]] > yr_numerical[yr_candidates[2]]
    /\ \A v \in YearGroups(yr_numerical) \ {yr_candidates[1], yr_candidates[2]} :
            yr_numerical[v] < yr_numerical[yr_candidates[2]]

\* C1 (as claimed): whenever the two most frequent years within the limits
\* differ by exactly 1, the call returns that pair of years, whichever of the
\* two is the more frequent one.
C1_AdjacentTopTwoReturned ==
    (YearsDone /\ Len(yr_candidates) = 2 /\ YearsTopTwoClear
        /\ Abs(yr_candidates[1] - yr_candidates[2]) = 1)
        => /\ YearsReturnedPair
           /\ {yr_result.value[1], yr_result.value[2]} = {yr_candidates[1], yr_candidates[2]}

\* C2: whenever the two most frequent years within the limits do not differ
\* by exactly 1 the call returns 0, and a returned pair always consists of two
\* years within [2000, 2050] that differ by exactly 1 and that no other year
\* within the limits outnumbers.
C2_PairOnlyWhenAdjacent ==
    /\ (YearsDone /\ Len(yr_candidates) = 2 /\ Abs(yr_candidates[1] - yr_candidates[2]) # 1)
            => yr_result = [kind |-> "return_0", value |-> 0]
    /\ YearsReturnedPair =>
        /\ Len(yr_result.value) = 2
        /\ \A i \in 1..2 :
            /\ yr_result.value[i] >= 2000
            /\ yr_result.value[i] <= 2050
            /\ yr_numerical[yr_result.value[i]] > 0
            /\ \A v \in YearValues \ {yr_result.value[1], yr_result.value[2]} :
                (v >= 2000 /\ v <= 2050) => yr_numerical[v] <= yr_numerical[yr_result.value[i]]
        /\ Abs(yr_result.value[1] - yr_result.value[2]) = 1

\* The gap-of-two document of the specification, {2019: 3, 2017: 2}, has been
\* voted on and the call has returned 0.
C2_Witness ==
    /\ yr_numerical = [v \in YearValues |-> IF v = 2019 THEN 3 ELSE IF v = 2017 THEN 2 ELSE 0]
    /\ yr_candidates = <<2019, 2017>>
    /\ yr_result = [kind |-> "return_0", value |-> 0]

\* C14 (as claimed): for every document, one with no value or a single
\* distinct value within [2000, 2050] included, the call ends in a pair of
\* years or in the value 0, never in an exception.
C14_YearsNeverRaise ==
    YearsDone => yr_result.kind \in {"return_candidates", "return_0"}

(***************************************************************************)
(* determine_units_count(subset)                                           *)
(***************************************************************************)

\* The tokens the 'text' column is drawn from.
UnitTexts == {
    <<"£", "m">>,                               \* starts with a symbol
    <<"$">>,
    <<"£">>,
    <<"m", "i", "l", "l", "i", "o", "n">>,      \* a scale word
    <<"m", "£">>,                               \* a marker, but not at the start
    <<"1", "2">> }                              \* no marker at all
MaxUnitCount == 3

StartsWith(s, p) == Len(s) >= Len(p) /\ SubSeq(s, 1, Len(p)) = p

\* A slip of the call: re.search, which finds a marker anywhere in the text.
UnitsRegexSearch(s) ==
    \E i \in 1..Len(s) :
        \/ s[i] \in {"£", "$"}
        \/ StartsWith(SubSeq(s, i, Len(s)), <<"m", "i", "l", "l", "i", "o", "n">>)
        \/ StartsWith(SubSeq(s, i, Len(s)), <<"t", "h", "o", "u", "s", "a", "n", "d">>)

\* re.match("[£$]|million|thousand|£m|£k|$m|$k", str(x)): one of the
\* alternatives matches at the start of the text.  In "$m" and "$k" the "$"
\* is the end-of-text anchor, so nothing can follow it and neither of the two
\* ever matches.
UnitsRegexMatch(s) ==
    \/ (Len(s) >= 1 /\ s[1] \in {"£", "$"})
    \/ StartsWith(s, <<"m", "i", "l", "l", "i", "o", "n">>)
    \/ StartsWith(s, <<"t", "h", "o", "u", "s", "a", "n", "d">>)
    \/ StartsWith(s, <<"£", "m">>)
    \/ StartsWith(s, <<"£", "k">>)
    \/ FALSE
    \/ FALSE

\* subset[subset['keyword_found']==True].groupby("text"): the distinct tokens
\* that match and have at least one row.
UnitGroups(text) == {t \in DOMAIN text : text[t] > 0 /\ UnitsRegexMatch(t)}

\* .count().sort_values("count", ascending=False).reset_index(): the tables
\* the sort may produce, one row (text, count) per distinct token.
UnitsTable(text) ==
    {[i \in DOMAIN s |-> [text |-> s[i], count |-> text[s[i]]]] :
        s \in SortDescending(UnitGroups(text), text)}

UnitsInit ==
    /\ un_text \in [UnitTexts -> 0..MaxUnitCount]
    /\ un_units = <<>>
    /\ un_result = Pending

\* return( (units.loc[0, "text"], units.loc[0, "count"]) )
UnitsReturn ==
    /\ un_result = Pending
    /\ \E u \in UnitsTable(un_text) :
        /\ Len(u) > 0
        /\ un_units' = u
        /\ un_result' = [kind |-> "return", text |-> u[1].text, count |-> u[1].count]
    /\ UNCHANGED un_text
    /\ UNCHANGED otherThanUn

\* units has no row 0: units.loc[0, "text"] raises KeyError.
UnitsKeyError ==
    /\ un_result = Pending
    /\ \E u \in UnitsTable(un_text) :
        /\ Len(u) = 0
        /\ un_units' = u
        /\ un_result' = [kind |-> "KeyError"]
    /\ UNCHANGED un_text
    /\ UNCHANGED otherThanUn

determine_units_count ==
    \/ UnitsReturn
    \/ UnitsKeyError

UnitsNext == determine_units_count

InitUnits == UnitsInit /\ yrIdle /\ nmIdle /\ gmIdle /\ agIdle /\ alIdle /\ fsIdle /\ scIdle /\ bdIdle

SpecUnits == InitUnits /\ [][UnitsNext]_vars

\* The vocabulary of currency and scale markers.
UnitMarkers == {
    <<"£">>, <<"$">>,
    <<"m", "i", "l", "l", "i", "o", "n">>, <<"t", "h", "o", "u", "s", "a", "n", "d">>,
    <<"£", "m">>, <<"£", "k">>, <<"$", "m">>, <<"$", "k">> }

StartsWithMarker(t) == \E m \in UnitMarkers : StartsWith(t, m)

\* The tokens of the document that start with a marker.
MarkedTokens == {t \in UnitTexts : un_text[t] > 0 /\ StartsWithMarker(t)}

\* C7: when at least one token starts with a currency or scale marker, the
\* call returns a token that starts with a marker and that no other such
\* token outnumbers, together with its number of occurrences.
C7_MostFrequentUnitReturned ==
    (un_result.kind # "pending" /\ MarkedTokens # {}) =>
        /\ un_result.kind = "return"
        /\ un_result.text \in MarkedTokens
        /\ un_result.count = un_text[un_result.text]
        /\ \A t \in MarkedTokens : un_text[t] <= un_result.count

\* A document with three "£m", one "$" and two "m£" has been voted on: the
\* call has returned "£m" with the count 3.
C7_Witness ==
    /\ un_text[<<"£", "m">>] = 3
    /\ un_text[<<"$">>] = 1
    /\ un_text[<<"m", "£">>] = 2
    /\ un_result = [kind |-> "return", text |-> <<"£", "m">>, count |-> 3]

\* C8 (as claimed): when no text of the document matches the vocabulary the
\* call ends with a result, not with an exception.
C8_NoMarkerNoException ==
    (un_result.kind # "pending" /\ MarkedTokens = {}) => un_result.kind = "return"

(***************************************************************************)
(* convert_to_numeric(series)                                              *)
(*                                                                         *)
(* The function works element by element (series.apply, pd.to_numeric), so *)
(* the model converts one element.                                         *)
(***************************************************************************)

Digits == {"0", "1"}
DigitValue == [c \in Digits |-> IF c = "0" THEN 0 ELSE 1]

\* The characters the text of an element is drawn from: digits, the
\* thousands separator, parentheses, a sign and a letter.
NumericChars == Digits \cup {",", "(", ")", "-", "a"}
MaxTextLen == 5

\* All texts of at most n characters.
TextsUpTo(n) == UNION {[1..k -> NumericChars] : k \in 0..n}

\* str.replace(ch, ""): every occurrence of ch removed.
Replace(s, ch) == SelectSeq(s, LAMBDA c : c # ch)

\* str.strip(ch): the leading and the trailing run of ch removed.
RECURSIVE LStrip(_, _)
LStrip(s, ch) ==
    IF Len(s) > 0 /\ s[1] = ch THEN LStrip(Tail(s), ch) ELSE s

RECURSIVE RStrip(_, _)
RStrip(s, ch) ==
    IF Len(s) > 0 /\ s[Len(s)] = ch THEN RStrip(SubSeq(s, 1, Len(s) - 1), ch) ELSE s

Strip(s, ch) == RStrip(LStrip(s, ch), ch)

\* The accounting reading of parentheses, which the code does not implement:
\* an opening parenthesis becomes a minus sign.
q_func_negate(x) ==
    Strip([i \in DOMAIN Replace(x, ",") |->
              IF Replace(x, ",")[i] = "(" THEN "-" ELSE Replace(x, ",")[i]], ")")

\* q_func = lambda x: str(x).replace(",", "").strip("(").strip(")")
q_func(x) == Strip(Strip(Replace(x, ","), "("), ")")

\* The number a run of digits spells.
RECURSIVE Decimal(_)
Decimal(s) ==
    IF Len(s) = 0 THEN 0
    ELSE 10 * Decimal(SubSeq(s, 1, Len(s) - 1)) + DigitValue[s[Len(s)]]

IsDigits(s) == Len(s) > 0 /\ \A i \in DOMAIN s : s[i] \in Digits

\* pd.to_numeric(..., errors="coerce") of one text over NumericChars: a run of
\* digits, with or without a minus sign in front, is the number it spells;
\* any other text is invalid and becomes numpy.nan.
to_numeric(s) ==
    IF IsDigits(s) THEN Number(Decimal(s))
    ELSE IF Len(s) > 1 /\ s[1] = "-" /\ IsDigits(Tail(s)) THEN Number(0 - Decimal(Tail(s)))
    ELSE NaN

convert_to_numeric(x) == to_numeric(q_func(x))

NumericInit ==
    /\ nm_series \in TextsUpTo(MaxTextLen)
    /\ nm_result = Pending

\* The element parses: numeric_series holds its number.
ConvertParsed ==
    /\ nm_result = Pending
    /\ convert_to_numeric(nm_series) # NaN
    /\ nm_result' = [kind |-> "return", value |-> convert_to_numeric(nm_series)]
    /\ UNCHANGED nm_series
    /\ UNCHANGED otherThanNm

\* The element does not parse: errors="coerce" puts numpy.nan in its place.
ConvertCoerced ==
    /\ nm_result = Pending
    /\ convert_to_numeric(nm_series) = NaN
    /\ nm_result' = [kind |-> "return", value |-> NaN]
    /\ UNCHANGED nm_series
    /\ UNCHANGED otherThanNm

NumericNext ==
    \/ ConvertParsed
    \/ ConvertCoerced

InitNumeric == NumericInit /\ yrIdle /\ unIdle /\ gmIdle /\ agIdle /\ alIdle /\ fsIdle /\ scIdle /\ bdIdle

SpecNumeric == InitNumeric /\ [][NumericNext]_vars

\* The text is digits and commas with at least one digit.
IsSeparatedDigits(s) ==
    /\ \A i \in DOMAIN s : s[i] \in Digits \cup {","}
    /\ \E i \in DOMAIN s : s[i] \in Digits

\* The text is digits and commas, bare or wrapped in one pair of parentheses.
IsPlainOrParenthesized(s) ==
    \/ IsSeparatedDigits(s)
    \/ /\ Len(s) >= 2
       /\ s[1] = "("
       /\ s[Len(s)] = ")"
       /\ IsSeparatedDigits(SubSeq(s, 2, Len(s) - 1))

\* The number spelled by the digits of a text, read left to right.
RECURSIVE SpelledNumber(_, _)
SpelledNumber(s, acc) ==
    IF Len(s) = 0 THEN acc
    ELSE SpelledNumber(Tail(s), IF s[1] = "1" THEN 10 * acc + 1
                                ELSE IF s[1] = "0" THEN 10 * acc
                                ELSE acc)

\* C9: a text of digits and commas, bare or wrapped in parentheses, converts
\* to the non-negative number its digits spell; a text that holds a letter
\* converts to NaN; and the conversion ends with a value for every text.
C9_ParenthesesStrippedSignKept ==
    nm_result.kind # "pending" =>
        /\ nm_result.kind = "return"
        /\ IsPlainOrParenthesized(nm_series) =>
            /\ nm_result.value # NaN
            /\ nm_result.value = Number(SpelledNumber(nm_series, 0))
            /\ nm_result.value.val >= 0
        /\ (\E i \in DOMAIN nm_series : nm_series[i] = "a") => nm_result.value = NaN

\* The text "(1,0)" has been converted, and to 10.
C9_Witness ==
    /\ nm_series = <<"(", "1", ",", "0", ")">>
    /\ nm_result = [kind |-> "return", value |-> Number(10)]

(***************************************************************************)
(* make_measurements(data)                                                 *)
(*                                                                         *)
(* centre_x and centre_y are halves; the model holds them doubled.  The    *)
(* mean of the spacing is held as its sum and its count; the median and    *)
(* the standard deviation, floating-point statistics that no other column  *)
(* reads, are left out.                                                    *)
(***************************************************************************)

MaxDataRows == 2

\* The rows 'data' is drawn from.  The table is ordered by line and the
\* other keys of a line (csv_num, page_num, block_num, par_num) are the same
\* in every row, so line_num stands for the five of them.
DataRows ==
    [line_num : {1, 2}, word_num : {0, 1, 2},
     left : {0, 3}, width : {1, 2}, top : {0, 2}, height : {1, 3}]

IsOrderedByLine(data) ==
    \A i \in 1..(Len(data) - 1) : data[i].line_num <= data[i + 1].line_num

\* A slip of the condition: only the records with word number 0 are left
\* without a spacing.
space_from_left_word0(data, i) ==
    IF data[i].word_num = 0 \/ i = 1 THEN NaN
    ELSE Number(data[i].left - (data[i - 1].left + data[i - 1].width))

\* np.where((word_num == 0) | (word_num == 1), np.nan,
\*          data['left'] - data['right'].shift())
\* shift() leaves the first row without a value, and a difference with it is
\* numpy.nan as well.
space_from_left(data, i) ==
    IF data[i].word_num = 0 \/ data[i].word_num = 1 \/ i = 1 THEN NaN
    ELSE Number(data[i].left - (data[i - 1].left + data[i - 1].width))

\* groupby([...]).size(): the lines of the table in key order, and the
\* number of rows of each.
LineKeys(data) == {data[i].line_num : i \in DOMAIN data}
line_word_count(data, k) == Cardinality({i \in DOMAIN data : data[i].line_num = k})

\* line_lookup.index.values: the position of a line among the sorted keys,
\* counted from 0.
line_index(data, k) == Cardinality({j \in LineKeys(data) : j < k})

\* The rows that have a spacing, for the whole-document statistics.
Spaced(data) == {i \in DOMAIN data : space_from_left(data, i) # NaN}

RECURSIVE SumSpacing(_, _)
SumSpacing(data, I) ==
    IF I = {} THEN 0
    ELSE LET i == CHOOSE j \in I : TRUE
         IN space_from_left(data, i).val + SumSpacing(data, I \ {i})

\* One row of line_data.
Measured(data, i) ==
    [line_num |-> data[i].line_num,
     word_num |-> data[i].word_num,
     left |-> data[i].left,
     width |-> data[i].width,
     top |-> data[i].top,
     height |-> data[i].height,
     centre_x2 |-> 2 * data[i].left + data[i].width,
     centre_y2 |-> 2 * data[i].top + data[i].height,
     right |-> data[i].left + data[i].width,
     bottom |-> data[i].top + data[i].height,
     area |-> data[i].height * data[i].width,
     space_from_left |-> space_from_left(data, i),
     line_word_count |-> line_word_count(data, data[i].line_num),
     line_index |-> line_index(data, data[i].line_num),
     doc_spacing_sum |-> SumSpacing(data, Spaced(data)),
     doc_spacing_count |-> Cardinality(Spaced(data))]

GeometryInit ==
    /\ \E n \in 0..MaxDataRows :
        \E d \in [1..n -> DataRows] :
            /\ IsOrderedByLine(d)
            /\ gm_data = d
    /\ gm_result = Pending

\* return( line_data )
make_measurements ==
    /\ gm_result = Pending
    /\ gm_result' = [kind |-> "return",
                     line_data |-> [i \in DOMAIN gm_data |-> Measured(gm_data, i)]]
    /\ UNCHANGED gm_data
    /\ UNCHANGED otherThanGm

GeometryNext == make_measurements

InitGeometry == GeometryInit /\ yrIdle /\ unIdle /\ nmIdle /\ agIdle /\ alIdle /\ fsIdle /\ scIdle /\ bdIdle

SpecGeometry == InitGeometry /\ [][GeometryNext]_vars

\* C10: every row of the output is a row of the input with right = left +
\* width, bottom = top + height and area = width * height; its
\* space_from_left is undefined when its word number is 0 or 1 (a non-word
\* record, the first word of a line) and is its left minus the right of the
\* record before it for every other row that has a record before it.
C10_DerivedGeometry ==
    gm_result.kind = "return" =>
        /\ Len(gm_result.line_data) = Len(gm_data)
        /\ \A i \in DOMAIN gm_data :
            LET w == gm_result.line_data[i] IN
            /\ w.left = gm_data[i].left /\ w.width = gm_data[i].width
            /\ w.top = gm_data[i].top /\ w.height = gm_data[i].height
            /\ w.word_num = gm_data[i].word_num
            /\ w.right = w.left + w.width
            /\ w.bottom = w.top + w.height
            /\ w.area = w.width * w.height
            /\ w.word_num \in {0, 1} => w.space_from_left = NaN
            /\ (w.word_num \notin {0, 1} /\ i > 1) =>
                    w.space_from_left = Number(w.left - gm_result.line_data[i - 1].right)

\* A line of two words has been measured: the first word, at 0 and 2 wide,
\* has no spacing, and the second, at 3, is 1 from it.
C10_Witness ==
    /\ gm_result.kind = "return"
    /\ Len(gm_data) = 2
    /\ gm_data[1].word_num = 1 /\ gm_data[1].left = 0 /\ gm_data[1].width = 2
    /\ gm_data[2].word_num = 2 /\ gm_data[2].left = 3
    /\ gm_result.line_data[1].space_from_left = NaN
    /\ gm_result.line_data[2].space_from_left = Number(1)

(***************************************************************************)
(* aggregate_sentences_over_lines(dat)                                     *)
(*                                                                         *)
(* Init is the table line_text as lines 156 to 166 build it from dat: one  *)
(* row per (csv_num, block_num, par_num, line_num) in key order, with the  *)
(* joined text of the line and the box around its words.  The actions are  *)
(* the loop of lines 174 to 191, one per visit of a row, and the filters   *)
(* that follow it.                                                         *)
(***************************************************************************)

LowerLetters == <<"a", "b", "c", "d", "e", "f", "g", "h", "i", "j", "k", "l", "m",
                  "n", "o", "p", "q", "r", "s", "t", "u", "v", "w", "x", "y", "z">>
UpperLetters == <<"A", "B", "C", "D", "E", "F", "G", "H", "I", "J", "K", "L", "M",
                  "N", "O", "P", "Q", "R", "S", "T", "U", "V", "W", "X", "Y", "Z">>
DecimalDigits == {"0", "1", "2", "3", "4", "5", "6", "7", "8", "9"}
Whitespace == {" "}

IsLower(c) == \E i \in DOMAIN LowerLetters : LowerLetters[i] = c

\* str.lower() of one character.
Lower(c) ==
    IF \E i \in DOMAIN UpperLetters : UpperLetters[i] = c
    THEN LowerLetters[CHOOSE i \in DOMAIN UpperLetters : UpperLetters[i] = c]
    ELSE c

\* str.strip(): the white space at both ends removed.
RECURSIVE StripWhitespace(_)
StripWhitespace(s) ==
    IF Len(s) > 0 /\ s[1] \in Whitespace THEN StripWhitespace(Tail(s))
    ELSE IF Len(s) > 0 /\ s[Len(s)] \in Whitespace
         THEN StripWhitespace(SubSeq(s, 1, Len(s) - 1))
    ELSE s

MaxLines == 3

\* The texts of a line: a heading, a continuation (lowercase first), a line
\* of figures, a line of punctuation and the empty text of a record that
\* holds no word.  A text of line_text has had strip("nan ") applied, so none
\* starts or ends with "n", "a" or a space.
LineTexts == {
    <<"C", "o", "s", "t">>,
    <<"o", "f">>,
    <<"1", "0">>,
    <<"-">>,
    <<>> }

\* The boxes of a line: two heights on the page and two columns.
LineBoxes ==
    [top : {0, 2}, left : {0, 2}, height : {2}, width : {2}]

CsvNums == {1, 2}

\* re.search("^[a-z].*", x.strip()): the trimmed text starts with a
\* lowercase letter.
continued_line(text) ==
    /\ Len(StripWhitespace(text)) > 0
    /\ IsLower(StripWhitespace(text)[1])

\* The number of rows before row i that are on the same page: the lines of a
\* page are numbered from 1 in the order of the table.
LineNumOf(csv, i) == Cardinality({j \in 1..i : csv[j] = csv[i]})

\* The row of line_text for one line.  'merged' is history, not a column of
\* the code: the rows of line_text an accumulator has been built from.
LineRow(csv, text, box, i) ==
    [csv_num |-> csv[i],
     line_num |-> LineNumOf(csv, i),
     text |-> text[i],
     top |-> box[i].top,
     bottom |-> box[i].top + box[i].height,
     left |-> box[i].left,
     right |-> box[i].left + box[i].width,
     continued_line |-> continued_line(text[i]),
     merged |-> <<i>>]

\* The pages of the n rows of a table in key order.
PagesInOrder(n) == {c \in [1..n -> CsvNums] : \A i \in 1..(n - 1) : c[i] <= c[i + 1]}

\* The table line_text of the lines with these pages, texts and boxes.
LineTable(csv, text, box) == [i \in DOMAIN csv |-> LineRow(csv, text, box, i)]

Min(a, b) == IF a < b THEN a ELSE b
Max(a, b) == IF a > b THEN a ELSE b

AggregateInit ==
    /\ \E n \in 0..MaxLines :
        \E csv \in PagesInOrder(n), text \in [1..n -> LineTexts], box \in [1..n -> LineBoxes] :
            ag_line_text = LineTable(csv, text, box)
    /\ ag_index = 0
    /\ ag_row_of_interest = <<>>
    /\ ag_results = <<>>
    /\ ag_result = Pending

\* results = pd.DataFrame(); row_of_interest = line_text.iloc[0,:]
AggregateBegin ==
    /\ ag_result = Pending
    /\ ag_index = 0
    /\ Len(ag_line_text) > 0
    /\ ag_results' = <<>>
    /\ ag_row_of_interest' = ag_line_text[1]
    /\ ag_index' = 1
    /\ UNCHANGED <<ag_line_text, ag_result>>
    /\ UNCHANGED otherThanAg

\* line_text has no row: line_text.iloc[0,:] raises IndexError.
AggregateIndexError ==
    /\ ag_result = Pending
    /\ ag_index = 0
    /\ Len(ag_line_text) = 0
    /\ ag_result' = [kind |-> "IndexError"]
    /\ UNCHANGED <<ag_line_text, ag_index, ag_row_of_interest, ag_results>>
    /\ UNCHANGED otherThanAg

\* if (row['continued_line']==True) & (index != 0): the row is folded into
\* the accumulator.
AggregateContinued ==
    /\ ag_result = Pending
    /\ ag_index \in 1..Len(ag_line_text)
    /\ LET row == ag_line_text[ag_index] IN
        /\ row.continued_line /\ ag_index # 1
        /\ ag_row_of_interest' =
            [ag_row_of_interest EXCEPT
                !.text = ag_row_of_interest.text \o <<" ">> \o row.text,
                !.bottom = row.bottom,
                !.left = Min(ag_row_of_interest.left, row.left),
                !.right = Max(ag_row_of_interest.right, row.right),
                !.merged = Append(ag_row_of_interest.merged, ag_index)]
    /\ ag_index' = ag_index + 1
    /\ UNCHANGED <<ag_line_text, ag_results, ag_result>>
    /\ UNCHANGED otherThanAg

\* else: results = results.append(row_of_interest); row_of_interest = row
AggregateAppend ==
    /\ ag_result = Pending
    /\ ag_index \in 1..Len(ag_line_text)
    /\ LET row == ag_line_text[ag_index] IN
        /\ ~(row.continued_line /\ ag_index # 1)
        /\ ag_results' = Append(ag_results, ag_row_of_interest)
        /\ ag_row_of_interest' = row
    /\ ag_index' = ag_index + 1
    /\ UNCHANGED <<ag_line_text, ag_result>>
    /\ UNCHANGED otherThanAg

\* re.search(".*[0-9].*", x): the text holds a digit.
HasDigit(text) == \E i \in DOMAIN text : text[i] \in DecimalDigits

\* re.sub("[^a-z]+", "", x.lower()): the letters of the text, in lowercase.
FormatText(text) == SelectSeq([i \in DOMAIN text |-> Lower(text[i])], IsLower)

\* The three steps after the loop: the rows with a digit dropped, the text
\* formatted, the rows left with an empty text dropped.
Filtered(results) ==
    LET noDigits == SelectSeq(results, LAMBDA r : ~HasDigit(r.text))
        formatted == [i \in DOMAIN noDigits |->
                        [noDigits[i] EXCEPT !.text = FormatText(noDigits[i].text)]]
    IN SelectSeq(formatted, LAMBDA r : Len(StripWhitespace(r.text)) > 0)

\* The loop has visited every row: the filters, and
\* return(results.drop("continued_line", axis=1)).
AggregateReturn ==
    /\ ag_result = Pending
    /\ ag_index = Len(ag_line_text) + 1
    /\ ag_result' = [kind |-> "return", results |-> Filtered(ag_results)]
    /\ UNCHANGED <<ag_line_text, ag_index, ag_row_of_interest, ag_results>>
    /\ UNCHANGED otherThanAg

aggregate_sentences_over_lines ==
    \/ AggregateBegin
    \/ AggregateIndexError
    \/ AggregateContinued
    \/ AggregateAppend
    \/ AggregateReturn

AggregateNext == aggregate_sentences_over_lines

InitAggregate == AggregateInit /\ yrIdle /\ unIdle /\ nmIdle /\ gmIdle /\ alIdle /\ fsIdle /\ scIdle /\ bdIdle

SpecAggregate == InitAggregate /\ [][AggregateNext]_vars

\* The rows of line_text a row of results has been built from.
MergedOf(r) == {r.merged[k] : k \in DOMAIN r.merged}

\* C3 (as claimed): when a line is followed by a line whose trimmed text
\* starts with a lowercase letter, the accumulator that holds the two has the
\* first text, a space and the second text as its text, and the box around
\* both boxes: the smaller top, the larger bottom, the smaller left and the
\* larger right.  Stated for two lines of the same page.
C3_ContinuationSpansBothBoxes ==
    (ag_index >= 1 /\ Len(ag_row_of_interest.merged) = 2) =>
        LET first == ag_line_text[ag_row_of_interest.merged[1]]
            second == ag_line_text[ag_row_of_interest.merged[2]]
        IN (first.csv_num = second.csv_num /\ continued_line(second.text)) =>
           /\ ag_row_of_interest.text = first.text \o <<" ">> \o second.text
           /\ ag_row_of_interest.top = Min(first.top, second.top)
           /\ ag_row_of_interest.bottom = Max(first.bottom, second.bottom)
           /\ ag_row_of_interest.left = Min(first.left, second.left)
           /\ ag_row_of_interest.right = Max(first.right, second.right)

\* C4 (as claimed): when the loop has ended, and before the filters, every
\* line of the input is part of exactly one row of results: each accumulator
\* has been emitted once, the last one included, and none twice.
C4_EveryLineEmittedOnce ==
    ag_result.kind = "return" =>
        \A i \in DOMAIN ag_line_text :
            Cardinality({k \in DOMAIN ag_results : i \in MergedOf(ag_results[k])}) = 1

\* C15 (as claimed): stitching never crosses a page boundary: every row the
\* call returns has been built only from lines of line_text whose csv_num is
\* the csv_num of the row itself.
C15_NoStitchAcrossPages ==
    ag_result.kind = "return" =>
        \A k \in DOMAIN ag_result.results :
            \A i \in MergedOf(ag_result.results[k]) :
                ag_line_text[i].csv_num = ag_result.results[k].csv_num

(***************************************************************************)
(* extract_stat_linesearch(dat, keyphrase), with agg_level, agg_two_lines  *)
(* and extract_parallel_numbers                                            *)
(*                                                                         *)
(* dat is the OCR table as Tesseract gives it: ordered by page and line,   *)
(* within a line from left to right, and with the words of a line at the   *)
(* height of the line.  Its column 'numerical' is convert_to_numeric of    *)
(* its column 'text'.  A row is named by its position in dat.              *)
(***************************************************************************)

MaxWords == 4

WordTexts == {<<"C", "a", "s", "h">>, <<"1", "0">>}
Keyphrases == {<<"C", "a", "s", "h">>}
WordLefts == {0, 1, 2}
WordTops == {0, 2}
WordKeys == {<<c, l>> : c \in {1, 2}, l \in {1, 2}}

\* The column 'numerical' of a record with the given text.
WordNumerical == [t \in WordTexts |-> convert_to_numeric(t)]

\* One record of dat.  The block and the paragraph are the same for every
\* record, and every record is a word (level 5).
WordRow(key, left, top, text) ==
    [csv_num |-> key[1], block_num |-> 1, par_num |-> 1, line_num |-> key[2],
     level |-> 5,
     left |-> left, top |-> top, bottom |-> top + 2,
     text |-> text, numerical |-> WordNumerical[text], conf |-> 96]

\* The key the records of a line share.
LineKey(w) == <<w.csv_num, w.block_num, w.par_num, w.line_num>>

\* The order of the keys, page first.
RECURSIVE KeyBefore(_, _)
KeyBefore(a, b) ==
    /\ Len(a) > 0
    /\ \/ a[1] < b[1]
       \/ a[1] = b[1] /\ KeyBefore(Tail(a), Tail(b))

\* The layouts of n records: keys in order, and left growing along a line.
WordLayouts(n) ==
    {lay \in [1..n -> WordKeys \X WordLefts] :
        \A i \in 1..(n - 1) :
            \/ lay[i][1] = lay[i + 1][1] /\ lay[i][2] < lay[i + 1][2]
            \/ KeyBefore(lay[i][1], lay[i + 1][1])}

\* The tops of the records of a layout: one height for each line.
WordLayoutTops(lay) ==
    {top \in [DOMAIN lay -> WordTops] :
        \A i \in 1..(Len(lay) - 1) : lay[i][1] = lay[i + 1][1] => top[i] = top[i + 1]}

WordTable(lay, top, text) ==
    [i \in DOMAIN lay |-> WordRow(lay[i][1], lay[i][2], top[i], text[i])]

\* " ".join(parts)
RECURSIVE Join(_)
Join(parts) ==
    IF Len(parts) = 0 THEN <<>>
    ELSE IF Len(parts) = 1 THEN parts[1]
    ELSE parts[1] \o <<" ">> \o Join(Tail(parts))

\* str.strip(chars): the leading and the trailing characters of the set
\* removed.
RECURSIVE StripChars(_, _)
StripChars(s, chars) ==
    IF Len(s) > 0 /\ s[1] \in chars THEN StripChars(Tail(s), chars)
    ELSE IF Len(s) > 0 /\ s[Len(s)] \in chars
         THEN StripChars(SubSeq(s, 1, Len(s) - 1), chars)
    ELSE s

\* groupby(...): the keys of S in order.
RECURSIVE SortedKeys(_)
SortedKeys(S) ==
    IF S = {} THEN <<>>
    ELSE LET k == CHOOSE a \in S : \A b \in S \ {a} : KeyBefore(a, b)
         IN <<k>> \o SortedKeys(S \ {k})

\* The texts of the records of dat with the key k, in the order of dat.
TextsOfLine(dat, k) ==
    LET rows == SelectSeq([i \in DOMAIN dat |-> dat[i]],
                          LAMBDA w : w.level >= 4 /\ LineKey(w) = k)
    IN [i \in DOMAIN rows |-> rows[i].text]

\* agg_level(dat, 4): one row per line, in key order, with the joined text
\* of the line.
agg_level(dat) ==
    LET keys == SortedKeys({LineKey(dat[i]) : i \in {j \in DOMAIN dat : dat[j].level >= 4}})
    IN [i \in DOMAIN keys |->
            [key |-> keys[i],
             text |-> StripChars(Join(TextsOfLine(dat, keys[i])), {"n", "a", " "})]]

\* dat_agg['text'] + " " + dat_agg['text'].shift(-1): the text of a line and
\* of the line after it; the last line has none after it and gets numpy.nan.
\* lines is agg_level(dat) and k the key of a line of it.
text_agg(lines, k) ==
    LET i == CHOOSE j \in DOMAIN lines : lines[j].key = k
    IN IF i < Len(lines) THEN [text |-> lines[i].text \o <<" ">> \o lines[i + 1].text]
       ELSE NaN

\* str(x) of a cell of text_agg.
Str(x) == IF x = NaN THEN <<"n", "a", "n">> ELSE x.text

\* sub in s
Contains(s, sub) ==
    \E i \in 0..(Len(s) - Len(sub)) : SubSeq(s, i + 1, i + Len(sub)) = sub

\* keyphrase[:4]
FirstFour(keyphrase) == FirstRows(keyphrase, 4)

\* The rows of agg_two_lines(dat) that pass the two filters of lines 320 and
\* 323: the window of the row's line holds the keyphrase and starts with its
\* first four characters.  (A keyphrase that is part of "nan" is not among
\* Keyphrases: it would pass the first filter on the numpy.nan of the last
\* line.)
MatchedRows(dat, keyphrase) ==
    LET lines == agg_level(dat) IN
    {i \in DOMAIN dat :
        LET x == text_agg(lines, LineKey(dat[i])) IN
        /\ Contains(Str(x), keyphrase)
        /\ x # NaN
        /\ StartsWith(x.text, FirstFour(keyphrase))}

\* extract_parallel_numbers(dat, row): the records that overlap the row
\* vertically, on its page, to the right of its left edge and with a number.
\* int() changes none of the whole numbers of the row.
extract_parallel_numbers(dat, row) ==
    {i \in DOMAIN dat :
        /\ dat[i].top < dat[row].bottom
        /\ dat[i].bottom > dat[row].top
        /\ dat[i].csv_num = dat[row].csv_num
        /\ dat[i].left > dat[row].left
        /\ dat[i].numerical # NaN}

\* The filter of lines 328 to 332 written as extract_stat writes it, with
\* the test of 'numerical' commented out.
SelectionAnyText(dat, row) ==
    {i \in DOMAIN dat :
        /\ dat[i].top < dat[row].bottom
        /\ dat[i].bottom > dat[row].top
        /\ dat[i].csv_num = dat[row].csv_num
        /\ dat[i].left > dat[row].left}

\* selection = dat[...] of lines 328 to 332, the same filter in place.
Selection(dat, row) ==
    {i \in DOMAIN dat :
        /\ dat[i].top < dat[row].bottom
        /\ dat[i].bottom > dat[row].top
        /\ dat[i].csv_num = dat[row].csv_num
        /\ dat[i].left > dat[row].left
        /\ dat[i].numerical # NaN}

\* sort_values("left", ascending=True) over the rows S: the reverse of a
\* descending order.
SortAscending(S, key) ==
    {[i \in DOMAIN t |-> t[Len(t) + 1 - i]] : t \in SortDescending(S, key)}

\* A slip of the slice: the two left-most rows are kept.
TwoLeftMost(dat, S) ==
    LET left == [i \in S |-> dat[i].left]
    IN {FirstRows(t, 2) : t \in SortAscending(S, left)}

\* selection.sort_values("left", ascending=False).iloc[0:2,]
\*          .sort_values("left", ascending=True)
TwoRightMost(dat, S) ==
    LET left == [i \in S |-> dat[i].left]
    IN UNION {SortAscending({d[k] : k \in DOMAIN d}, left) :
                d \in {FirstRows(t, 2) : t \in SortDescending(S, left)}}

AlignInit ==
    /\ \E n \in 0..MaxWords :
        \E lay \in WordLayouts(n) :
            \E top \in WordLayoutTops(lay), text \in [1..n -> WordTexts] :
                al_dat = WordTable(lay, top, text)
    /\ al_keyphrase \in Keyphrases
    /\ al_row = 0
    /\ al_selection = <<>>
    /\ al_result = Pending

\* No row passes the filters: dat_agg.iloc[0] raises IndexError.
LinesearchIndexError ==
    /\ al_result = Pending
    /\ MatchedRows(al_dat, al_keyphrase) = {}
    /\ al_result' = [kind |-> "IndexError"]
    /\ UNCHANGED <<al_dat, al_keyphrase, al_row, al_selection>>
    /\ UNCHANGED otherThanAl

\* row = dat_agg.iloc[0], the selection, and
\* return(tuple(selection['numerical']), tuple(selection['conf']))
LinesearchReturn ==
    /\ al_result = Pending
    /\ MatchedRows(al_dat, al_keyphrase) # {}
    /\ LET row == CHOOSE i \in MatchedRows(al_dat, al_keyphrase) :
                      \A j \in MatchedRows(al_dat, al_keyphrase) : i <= j
       IN /\ al_row' = row
          /\ \E sel \in TwoRightMost(al_dat, Selection(al_dat, row)) :
                /\ al_selection' = sel
                /\ al_result' = [kind |-> "return",
                                 numerical |-> [k \in DOMAIN sel |-> al_dat[sel[k]].numerical],
                                 conf |-> [k \in DOMAIN sel |-> al_dat[sel[k]].conf]]
    /\ UNCHANGED <<al_dat, al_keyphrase>>
    /\ UNCHANGED otherThanAl

extract_stat_linesearch ==
    \/ LinesearchIndexError
    \/ LinesearchReturn

AlignNext == extract_stat_linesearch

InitAlign == AlignInit /\ yrIdle /\ unIdle /\ nmIdle /\ gmIdle /\ agIdle /\ fsIdle /\ scIdle /\ bdIdle

SpecAlign == InitAlign /\ [][AlignNext]_vars

\* C5 (as claimed): a returned result carries no numeric value or two, never
\* one.
C5_ZeroOrTwoValues ==
    al_result.kind = "return" => Len(al_result.numerical) \in {0, 2}

\* The records that are on the page of the matched row, overlap it
\* vertically, lie to the right of its left edge and have a parsed number.
AlignedCandidates ==
    {i \in DOMAIN al_dat :
        /\ al_dat[i].csv_num = al_dat[al_row].csv_num
        /\ al_dat[i].top < al_dat[al_row].bottom /\ al_dat[al_row].top < al_dat[i].bottom
        /\ al_dat[al_row].left < al_dat[i].left
        /\ al_dat[i].numerical # NaN}

SelectedRows == {al_selection[k] : k \in DOMAIN al_selection}

\* C6: the records returned for a match are candidates, as many as there are
\* up to two, none of them with a smaller left than a candidate left out, in
\* ascending order of left; the values returned are theirs; and
\* extract_parallel_numbers selects exactly the candidates.
C6_TwoRightMostAligned ==
    al_result.kind = "return" =>
        /\ SelectedRows \subseteq AlignedCandidates
        /\ Cardinality(SelectedRows) = Len(al_selection)
        /\ Len(al_selection) = Min(2, Cardinality(AlignedCandidates))
        /\ \A i \in AlignedCandidates \ SelectedRows :
              \A j \in SelectedRows : al_dat[i].left <= al_dat[j].left
        /\ \A k \in 1..(Len(al_selection) - 1) :
              al_dat[al_selection[k]].left <= al_dat[al_selection[k + 1]].left
        /\ al_result.numerical = [k \in DOMAIN al_selection |-> al_dat[al_selection[k]].numerical]
        /\ extract_parallel_numbers(al_dat, al_row) = AlignedCandidates

\* A match with three candidates has been answered with the two at the
\* right, and the one left out lies to the left of both.
C6_Witness ==
    /\ al_result.kind = "return"
    /\ Cardinality(AlignedCandidates) = 3
    /\ Len(al_selection) = 2
    /\ \E i \in AlignedCandidates \ SelectedRows :
          \A j \in SelectedRows : al_dat[i].left < al_dat[j].left

(***************************************************************************)
(* find_statistics(dat, keystring), with extract_stat                      *)
(*                                                                         *)
(* dat is a table of word records as for extract_stat_linesearch.  The     *)
(* actions are the blocks of find_statistics: the try block with the call  *)
(* of extract_stat, the except block with the call of                      *)
(* extract_stat_complex, and the final return(0).  extract_stat returns a  *)
(* tuple of three tuples whenever it returns, so len(stats) > 0 holds for  *)
(* every value it returns and the try block never falls through to         *)
(* return(0).                                                              *)
(***************************************************************************)

\* dat[dat['keyword_found']==True].iterrows(): the positions of the records
\* whose text is the keyword, in the order of dat.
KeywordRows(dat, keyword) ==
    SelectSeq([i \in DOMAIN dat |-> i], LAMBDA i : dat[i].text = keyword)

\* The loop of extract_stat over the keyword rows: the tables 'elements' it
\* may build, each the selections of the rows appended in order.
RECURSIVE Elements(_, _)
Elements(dat, rows) ==
    IF Len(rows) = 0 THEN {<<>>}
    ELSE {s \o t : s \in TwoRightMost(dat, SelectionAnyText(dat, rows[1])),
                   t \in Elements(dat, Tail(rows))}

\* elements.iloc[0:2,] and the three tuples returned.
StatsOf(dat, elements) ==
    LET e == FirstRows(elements, 2)
    IN [kind |-> "return",
        text |-> [k \in DOMAIN e |-> dat[e[k]].text],
        numerical |-> [k \in DOMAIN e |-> dat[e[k]].numerical],
        conf |-> [k \in DOMAIN e |-> dat[e[k]].conf]]

\* extract_stat(dat, keyword): the ways the call may end.  With no keyword
\* row 'elements' stays the empty pd.DataFrame(), which has no column
\* 'text': elements['text'] raises KeyError.
extract_stat(dat, keyword) ==
    IF Len(KeywordRows(dat, keyword)) = 0 THEN {[kind |-> "KeyError"]}
    ELSE {StatsOf(dat, e) : e \in Elements(dat, KeywordRows(dat, keyword))}

\* len(stats) of a value extract_stat returns: the tuple has the three
\* entries text, numerical and conf.
LenStats(stats) == 3

FindInit ==
    /\ \E n \in 0..MaxWords :
        \E lay \in WordLayouts(n) :
            \E top \in WordLayoutTops(lay), text \in [1..n -> WordTexts] :
                fs_dat = WordTable(lay, top, text)
    /\ fs_keystring \in Keyphrases
    /\ fs_pc = "try"
    /\ fs_stats = Pending
    /\ fs_complex = Pending
    /\ fs_result = Pending

\* try: stats = extract_stat(dat, keystring); if len(stats) > 0:
\* return(stats)
FindStatsReturned ==
    /\ fs_pc = "try"
    /\ \E stats \in extract_stat(fs_dat, fs_keystring) :
        /\ stats.kind = "return"
        /\ LenStats(stats) > 0
        /\ fs_stats' = stats
        /\ fs_result' = [kind |-> "return", value |-> stats]
    /\ fs_pc' = "done"
    /\ UNCHANGED <<fs_dat, fs_keystring, fs_complex>>
    /\ UNCHANGED otherThanFs

\* try: extract_stat raises, and the bare except: takes over.
FindStatsRaised ==
    /\ fs_pc = "try"
    /\ \E stats \in extract_stat(fs_dat, fs_keystring) :
        /\ stats.kind # "return"
        /\ fs_stats' = stats
    /\ fs_pc' = "except"
    /\ UNCHANGED <<fs_dat, fs_keystring, fs_complex, fs_result>>
    /\ UNCHANGED otherThanFs

\* except: try: stats = extract_stat_complex(dat, keystring).  No function
\* of that name is defined or imported: the call raises NameError, which
\* except Exception catches and prints.
FindComplexRaised ==
    /\ fs_pc = "except"
    /\ fs_complex' = [kind |-> "NameError"]
    /\ fs_pc' = "return_0"
    /\ UNCHANGED <<fs_dat, fs_keystring, fs_stats, fs_result>>
    /\ UNCHANGED otherThanFs

\* return(0)
FindReturnZero ==
    /\ fs_pc = "return_0"
    /\ fs_result' = [kind |-> "return_0", value |-> 0]
    /\ fs_pc' = "done"
    /\ UNCHANGED <<fs_dat, fs_keystring, fs_stats, fs_complex>>
    /\ UNCHANGED otherThanFs

find_statistics ==
    \/ FindStatsReturned
    \/ FindStatsRaised
    \/ FindComplexRaised
    \/ FindReturnZero

FindNext == find_statistics

InitFind == FindInit /\ yrIdle /\ unIdle /\ nmIdle /\ gmIdle /\ agIdle /\ alIdle /\ scIdle /\ bdIdle

SpecFind == InitFind /\ [][FindNext]_vars

\* The two-line search has run: the call of the second strategy has ended
\* in a result or in a failure of the search itself.
ComplexSearchRan == fs_complex.kind \notin {"pending", "NameError"}

\* C12 (as claimed): when the call has ended and no Word equals the keyword,
\* so that the exact-keyword search has found nothing, the two-line search
\* has run after it; and 0 is returned only when the exact-keyword search
\* has given no result and the two-line search has run and given none.
C12_FallbackTriedBeforeZero ==
    fs_pc = "done" =>
        /\ Len(KeywordRows(fs_dat, fs_keystring)) = 0 => ComplexSearchRan
        /\ fs_result.kind = "return_0" =>
              /\ fs_stats.kind # "return"
              /\ ComplexSearchRan

(***************************************************************************)
(* scrape_elements(soup, filepath) of xbrl_parser.py, with parse_elements  *)
(*                                                                         *)
(* soup is the parsed document: its tags in document order, each with its  *)
(* name, whether it has the attribute contextref, and its depth in the     *)
(* tree.  A tag's descendants are the tags that follow it for as long as   *)
(* they are deeper than it.  The actions are the five try blocks, one step *)
(* for each block that runs, and the final return(0).                      *)
(***************************************************************************)

MaxTags == 6

TagNames == {"xbrl", "ix"}
TagDepths == {0, 1}

\* The tags a document is made of.  The container tag xbrl carries no
\* contextref; a tagged fact may or may not.
SoupTags ==
    {t \in [name : TagNames, contextref : BOOLEAN, depth : TagDepths] :
        t.name = "xbrl" => ~t.contextref}

\* The documents of n tags: the first tag is at the top of the tree.
Soups(n) == {doc \in [1..n -> SoupTags] : n > 0 => doc[1].depth = 0}

\* soup.find_all(): the positions of all the tags, in document order.
find_all(doc) == [i \in DOMAIN doc |-> i]

\* soup.find_all("xbrl"): the positions of the tags of that name.
find_all_named(doc, name) ==
    SelectSeq(find_all(doc), LAMBDA i : doc[i].name = name)

\* tag.find_all(): the positions of the descendants of the tag at i.
find_all_under(doc, i) ==
    SelectSeq(find_all(doc),
              LAMBDA j : j > i /\ \A m \in (i + 1)..j : doc[m].depth > doc[i].depth)

\* parse_elements(element_set, soup): parse_element returns {} for a tag
\* without contextref and a dictionary with 'name' for any other; the
\* dictionaries with 'name' are kept.
parse_elements(doc, element_set) ==
    SelectSeq(element_set, LAMBDA i : doc[i].contextref)

\* if len(elements) <= 5: raise Exception("Elements should be gte 5, was
\* {}"); return(elements)
ElementsChecked(elements) ==
    IF Len(elements) <= 5
    THEN [kind |-> "Exception", was |-> Len(elements)]
    ELSE [kind |-> "return", elements |-> elements]

\* How the k-th try block ends.  In the second and the third, find_all is
\* called on the list a search returned, which has no such method:
\* AttributeError.  In the fourth and the fifth, xbrl[0] of an empty list
\* raises IndexError.
TryBlock(doc, k) ==
    CASE k = 1 -> ElementsChecked(parse_elements(doc, find_all(doc)))
      [] k = 2 -> [kind |-> "AttributeError"]
      [] k = 3 -> [kind |-> "AttributeError"]
      [] k = 4 -> IF Len(find_all_named(doc, "xbrl")) = 0 THEN [kind |-> "IndexError"]
                  ELSE ElementsChecked(parse_elements(doc,
                            find_all_under(doc, find_all_named(doc, "xbrl")[1])))
      [] k = 5 -> IF Len(find_all(doc)) = 0 THEN [kind |-> "IndexError"]
                  ELSE ElementsChecked(parse_elements(doc,
                            find_all_under(doc, find_all(doc)[1])))

ScrapeInit ==
    /\ \E n \in 0..MaxTags : sc_soup \in Soups(n)
    /\ sc_pc = 1
    /\ sc_tried = <<>>
    /\ sc_result = Pending

\* A try block runs to its return(elements).
ScrapeReturn ==
    /\ sc_result = Pending
    /\ sc_pc \in 1..5
    /\ TryBlock(sc_soup, sc_pc).kind = "return"
    /\ sc_tried' = Append(sc_tried, TryBlock(sc_soup, sc_pc))
    /\ sc_result' = TryBlock(sc_soup, sc_pc)
    /\ UNCHANGED <<sc_soup, sc_pc>>
    /\ UNCHANGED otherThanSc

\* A try block raises: except: pass, and the next block runs.
ScrapePass ==
    /\ sc_result = Pending
    /\ sc_pc \in 1..5
    /\ TryBlock(sc_soup, sc_pc).kind # "return"
    /\ sc_tried' = Append(sc_tried, TryBlock(sc_soup, sc_pc))
    /\ sc_pc' = sc_pc + 1
    /\ UNCHANGED <<sc_soup, sc_result>>
    /\ UNCHANGED otherThanSc

\* return(0)
ScrapeReturnZero ==
    /\ sc_result = Pending
    /\ sc_pc = 6
    /\ sc_result' = [kind |-> "return_0", value |-> 0]
    /\ UNCHANGED <<sc_soup, sc_pc, sc_tried>>
    /\ UNCHANGED otherThanSc

scrape_elements ==
    \/ ScrapeReturn
    \/ ScrapePass
    \/ ScrapeReturnZero

ScrapeNext == scrape_elements

InitScrape == ScrapeInit /\ yrIdle /\ unIdle /\ nmIdle /\ gmIdle /\ agIdle /\ alIdle /\ fsIdle /\ bdIdle

SpecScrape == InitScrape /\ [][ScrapeNext]_vars

\* What the k-th strategy retrieves and parses: a list of elements, or a
\* failure of the retrieval itself.
Yielded(elements) == [kind |-> "elements", elements |-> elements]
NotRetrieved == [kind |-> "raise"]

StrategyYield(doc, k) ==
    CASE k = 1 -> Yielded(parse_elements(doc, find_all(doc)))
      [] k \in {2, 3} -> NotRetrieved
      [] k = 4 -> IF Len(find_all_named(doc, "xbrl")) = 0 THEN NotRetrieved
                  ELSE Yielded(parse_elements(doc,
                            find_all_under(doc, find_all_named(doc, "xbrl")[1])))
      [] k = 5 -> IF Len(find_all(doc)) = 0 THEN NotRetrieved
                  ELSE Yielded(parse_elements(doc, find_all_under(doc, find_all(doc)[1])))

\* The strategies that yield at least 5 parsed elements.
StrategiesWithFive(doc) ==
    {k \in 1..5 : /\ StrategyYield(doc, k).kind = "elements"
                  /\ Len(StrategyYield(doc, k).elements) >= 5}

\* C13 (as claimed): when the call has ended, it has returned the elements
\* of the first of the five strategies, in their order, that yields at least
\* 5 parsed elements, and it has returned 0 only when none of the five does.
C13_FirstStrategyWithFive ==
    sc_result # Pending =>
        IF StrategiesWithFive(sc_soup) # {}
        THEN LET k == CHOOSE a \in StrategiesWithFive(sc_soup) :
                          \A b \in StrategiesWithFive(sc_soup) : a <= b
             IN /\ sc_result.kind = "return"
                /\ sc_result.elements = StrategyYield(sc_soup, k).elements
                /\ Len(sc_tried) = k
        ELSE sc_result = [kind |-> "return_0", value |-> 0]

(***************************************************************************)
(* LineBandDetector                                                        *)
(*                                                                         *)
(* The detector is not among the source files; it is modelled from the     *)
(* description of its algorithm: the Words of one page are filtered, the   *)
(* pixel rows 0 to the page height are scanned in order, a row is occupied *)
(* when a surviving Word covers it, and each maximal run of occupied rows  *)
(* becomes a Band.  The actions are the visits of the scan, one per pixel  *)
(* row, and its end.                                                       *)
(***************************************************************************)

PageHeight == 20
PageWidth == 10
HeightFraction == 20
MaxBandWords == 2

\* The texts of a Word: a word, a vertical bar, white space, and the null
\* of a record without text.
BandTexts == {[text |-> <<"C", "a", "s", "h">>], [text |-> <<"|">>], [text |-> <<" ">>], NaN}

\* The Words of a page: boxes within the page, of any height from 0.
BandWords ==
    {w \in [top : 0..PageHeight, height : 0..2, text : BandTexts] :
        w.top + w.height <= PageHeight}

\* bottom = top + height
BandWordBottom(w) == w.top + w.height

\* The text consists of vertical bars only.
IsBars(text) == Len(text) > 0 /\ \A i \in DOMAIN text : text[i] = "|"

\* A Word survives the filter unless its text is null, empty once trimmed
\* or made of vertical bars, or its height exceeds page height / 20.
Survives(w) ==
    /\ w.text # NaN
    /\ Len(StripWhitespace(w.text.text)) > 0
    /\ ~IsBars(StripWhitespace(w.text.text))
    /\ ~(w.height * HeightFraction > PageHeight)

\* A surviving Word covers the pixel row i: word.top <= i <= word.bottom.
Occupied(words, i) ==
    \E k \in DOMAIN words :
        /\ Survives(words[k])
        /\ words[k].top <= i
        /\ i <= BandWordBottom(words[k])

\* The Band of a run: [min(run), max(run)] over the full width of the page.
BandOf(run) ==
    [top |-> CHOOSE a \in run : \A b \in run : a <= b,
     bottom |-> CHOOSE a \in run : \A b \in run : a >= b,
     left |-> 0,
     right |-> PageWidth]

BandsInit ==
    /\ \E n \in 0..MaxBandWords : bd_words \in [1..n -> BandWords]
    /\ bd_i = 0
    /\ bd_run = {}
    /\ bd_bands = <<>>
    /\ bd_result = Pending

\* The row is occupied: it joins the run being built.
BandScanOccupied ==
    /\ bd_result = Pending
    /\ bd_i <= PageHeight
    /\ Occupied(bd_words, bd_i)
    /\ bd_run' = bd_run \cup {bd_i}
    /\ bd_i' = bd_i + 1
    /\ UNCHANGED <<bd_words, bd_bands, bd_result>>
    /\ UNCHANGED otherThanBd

\* The row is free and ends a run: the run is yielded as a Band.
BandYield ==
    /\ bd_result = Pending
    /\ bd_i <= PageHeight
    /\ ~Occupied(bd_words, bd_i)
    /\ bd_run # {}
    /\ bd_bands' = Append(bd_bands, BandOf(bd_run))
    /\ bd_run' = {}
    /\ bd_i' = bd_i + 1
    /\ UNCHANGED <<bd_words, bd_result>>
    /\ UNCHANGED otherThanBd

\* The row is free and no run is open.
BandScanFree ==
    /\ bd_result = Pending
    /\ bd_i <= PageHeight
    /\ ~Occupied(bd_words, bd_i)
    /\ bd_run = {}
    /\ bd_i' = bd_i + 1
    /\ UNCHANGED <<bd_words, bd_run, bd_bands, bd_result>>
    /\ UNCHANGED otherThanBd

\* Every row has been visited: a run that reaches the last row is yielded,
\* and the scan ends.
BandScanEnd ==
    /\ bd_result = Pending
    /\ bd_i = PageHeight + 1
    /\ bd_bands' = IF bd_run = {} THEN bd_bands ELSE Append(bd_bands, BandOf(bd_run))
    /\ bd_run' = {}
    /\ bd_result' = [kind |-> "done"]
    /\ UNCHANGED <<bd_words, bd_i>>
    /\ UNCHANGED otherThanBd

LineBandDetector ==
    \/ BandScanOccupied
    \/ BandYield
    \/ BandScanFree
    \/ BandScanEnd

BandsNext == LineBandDetector

InitBands == BandsInit /\ yrIdle /\ unIdle /\ nmIdle /\ gmIdle /\ agIdle /\ alIdle /\ fsIdle /\ scIdle

SpecBands == InitBands /\ [][BandsNext]_vars

\* C11 (as claimed): at every point of the scan the Bands yielded so far
\* have top < bottom, a run of a single occupied pixel row included, follow
\* one another in strictly increasing order of top, and no pixel row lies in
\* two of them.
C11_BandsOrderedDisjoint ==
    /\ \A k \in DOMAIN bd_bands : bd_bands[k].top < bd_bands[k].bottom
    /\ \A k \in 1..(Len(bd_bands) - 1) : bd_bands[k].top < bd_bands[k + 1].top
    /\ \A j, k \in DOMAIN bd_bands :
          j # k => ~(\E i \in 0..PageHeight :
                        /\ bd_bands[j].top <= i /\ i <= bd_bands[j].bottom
                        /\ bd_bands[k].top <= i /\ i <= bd_bands[k].bottom)

=============================================================================
